---------------------------- MODULE Spec2Model ----------------------------
(***************************************************************************)
(* blob-canvas: the ChatStatus renderer (three animated states), the       *)
(* Visualiser history chart and the useAudioRecorder composable.           *)
(*                                                                         *)
(* Units.  Amplitudes, ring progress and effective amplitude are integers  *)
(* in thousandths (1.0 = 1000).  Ring opacity is in 1/5000 (1.0 = 5000) so *)
(* that 1 - 1.2 * progress is exact.  Timestamps are milliseconds.         *)
(***************************************************************************)
EXTENDS Integers, Sequences, FiniteSets

VARIABLES
  \* ---- ChatStatus (StateRenderer) ----
  state,               \* props.state
  audioAmplitude,      \* props.audioAmplitude
  ctx,                 \* ctx.value # null
  innerRings,          \* innerRings.value
  effectiveAmplitude,  \* effectiveAmplitude.value
  lastTimestamp,       \* lastTimestamp
  statusFrame,         \* a requestAnimationFrame(animate) callback is pending
  statusPhase,         \* "setup" | "mounted" | "unmounted"
  stateWatcher,        \* the watch(props.state) job is queued, not yet run
  clock,               \* timestamp of the latest animation frame
  switched,            \* history: state changed since the last frame ("no" |
                       \* "clean" | "dirty": accumulators were non-initial)
  lastFrame,           \* history: what the latest frame read and did
  decayRun,            \* history: the Speaking frames that read the same input
                       \* in a row: the input, and the effective amplitude
                       \* and timestamp of the first of them
  \* ---- useAudioRecorder: the composable's refs and locals (0 = null) ----
  amplitude,           \* amplitude.value
  isRecording,         \* isRecording.value
  mediaRecorder,       \* mediaRecorder
  audioContext,        \* audioContext
  analyzerNode,        \* analyzerNode
  sourceNode,          \* sourceNode
  animationFrame,      \* animationFrame (a requestAnimationFrame handle)
  worker,              \* worker
  stream,              \* stream
  \* ---- useAudioRecorder: the host objects it created ----
  sessions,            \* number of streams getUserMedia has delivered
  liveStreams,         \* streams whose tracks are live
  openContexts,        \* AudioContexts not closed
  activeRecorders,     \* MediaRecorders in state "recording"
  connectedSources,    \* source nodes still connected to their analyser
  rafPending,          \* handles of pending analyzeAudio callbacks
  workerAlive,         \* the worker exists and is not terminated
  inbox,               \* 'analyze' messages posted, not yet processed
  outbox,              \* 'amplitude' responses posted, not yet delivered
  pendingStarts,       \* startRecording calls suspended at the await
  recorderPhase,       \* "active" | "unmounted"
  startCalls,          \* number of startRecording calls made
  stopError,           \* stopRecording has thrown
  lastOp,              \* history: the latest recorder operation
  stopsInRow,          \* history: consecutive stopRecording calls (up to 2)
  stopped,             \* history: a stopRecording zeroed amplitude and no
                       \* startRecording was called since
  \* ---- Visualiser (HistoryChart) ----
  chartAmplitude,      \* props.amplitude
  historySeconds,      \* props.historySeconds
  chartCtx,            \* ctx.value # null
  history,             \* history.value
  currentAmplitude,    \* currentAmplitude.value
  peakAmplitude,       \* peakAmplitude.value
  chartFrame,          \* a requestAnimationFrame(drawVisualization) is pending
  chartPhase,          \* "setup" | "mounted" | "unmounted"
  amplitudeWatcher,    \* the watch(props.amplitude) job is queued, not yet run
  chartClock,          \* timestamp of the latest chart frame
  lastChartFrame,      \* history: what the latest chart frame read and did
  peakSince,           \* history: largest sample appended since a zero
  \* ---- validateProps called on its own ----
  clampCall,           \* the latest call: its argument and what it returned
  \* ---- the analysis worker on its own ----
  analysis,            \* the latest 'analyze' message and the value posted back
  \* ---- AudioSimulator (speakingSimulator.ts) ----
  isPaused,            \* this.isPaused
  pauseEndTime,        \* this.pauseEndTime
  lastUpdate,          \* this.lastUpdate
  currentPhrase,       \* this.currentPhrase
  phraseProgress,      \* this.phraseProgress
  simClock,            \* timestamp of the latest getAmplitude call
  simResult,           \* what the latest getAmplitude call returned
  simLog               \* history: timestamp of the call that entered the latest
                       \* pause (-1: none), the amplitude before clamping

statusVars == <<state, audioAmplitude, ctx, innerRings, effectiveAmplitude,
                lastTimestamp, statusFrame, statusPhase, stateWatcher, clock,
                switched, lastFrame, decayRun>>

recorderVars == <<amplitude, isRecording, mediaRecorder, audioContext,
                  analyzerNode, sourceNode, animationFrame, worker, stream,
                  sessions, liveStreams, openContexts, activeRecorders,
                  connectedSources, rafPending, workerAlive, inbox, outbox,
                  pendingStarts, recorderPhase, startCalls, stopError, lastOp,
                  stopsInRow, stopped>>

chartVars == <<chartAmplitude, historySeconds, chartCtx, history,
               currentAmplitude, peakAmplitude, chartFrame, chartPhase,
               amplitudeWatcher, chartClock, lastChartFrame, peakSince>>

clampVars == <<clampCall>>

analysisVars == <<analysis>>

simulatorVars == <<isPaused, pauseEndTime, lastUpdate, currentPhrase,
                   phraseProgress, simClock, simResult, simLog>>

vars == <<statusVars, recorderVars, chartVars, clampVars, analysisVars,
          simulatorVars>>

\* what the operations of one component leave alone
notStatus == <<recorderVars, chartVars, clampVars, analysisVars,
               simulatorVars>>
notRecorder == <<statusVars, chartVars, clampVars, analysisVars,
                 simulatorVars>>
notChart == <<statusVars, recorderVars, clampVars, analysisVars,
              simulatorVars>>
notClamp == <<statusVars, recorderVars, chartVars, analysisVars,
              simulatorVars>>
notAnalysis == <<statusVars, recorderVars, chartVars, clampVars,
                 simulatorVars>>
notSimulator == <<statusVars, recorderVars, chartVars, clampVars,
                  analysisVars>>

----------------------------------------------------------------------------
\* Bounds of the model

\* Animation-clock timestamps stop here.
MaxTime == 6000

\* Milliseconds between two animation frames.
FrameIntervals == {50, 100}

\* Animation-clock timestamps stop here when decay runs are followed.
DecayMaxTime == 500

\* startRecording is called at most this many times.
MaxStarts == 2

\* Analysis requests and responses in flight at once.
MaxInFlight == 2

\* RMS levels (thousandths) of the sample windows the analyser delivers.
BufferLevels == {0, 100, 700}

\* Chart timestamps stop here.
ChartMaxTime == 2500

\* Milliseconds between two chart frames.
ChartIntervals == {400, 500}

\* Simulator timestamps stop here.
SimMaxTime == 1000

\* Milliseconds between two getAmplitude calls.
SimIntervals == {100, 200}

\* Outcomes of a Math.random() call, in thousandths.
RandomDraws == {0, 100, 999}

\* Values of a Math.sin(...) call, in thousandths: the waves are sampled at
\* their extremes.
SineValues == {-1000, 1000}

\* The steadily fed chart: frame spacing, last timestamp, amplitudes fed.
SteadyIntervals == {100}
SteadyMaxTime == 1500
SteadyInputs == {0, 800}

\* Values bound to the chart's historySeconds prop.
HistorySecondsInputs == {1}

\* Values the amplitude props take (thousandths), in and out of [0,1].
AmplitudeInputs == {-500, 0, 100, 800, 1500}

StatusStates == {"waiting", "listening", "speaking"}

Max(a, b) == IF a >= b THEN a ELSE b
Min(a, b) == IF a <= b THEN a ELSE b

----------------------------------------------------------------------------
\* ChatStatus constants

LISTENING_RING_DURATION == 2000
RING_SPAWN_THRESHOLD == 400
AMPLITUDE_DECAY_RATE == 2

\* 16 / LISTENING_RING_DURATION, in thousandths
RingStep == (16 * 1000) \div LISTENING_RING_DURATION

NewRing == [progress |-> 0, opacity |-> 5000]

\* A JavaScript number: a count of thousandths, or NaN.
Num(v) == [nan |-> FALSE, v |-> v]
NaN == [nan |-> TRUE, v |-> 0]

\* < and > are false when an operand is NaN; Math.max and Math.min return NaN
Lt(a, b) == ~a.nan /\ ~b.nan /\ a.v < b.v
Gt(a, b) == Lt(b, a)
MathMax(a, b) == IF a.nan \/ b.nan THEN NaN ELSE Num(Max(a.v, b.v))
MathMin(a, b) == IF a.nan \/ b.nan THEN NaN ELSE Num(Min(a.v, b.v))

\* validateProps: out-of-range values are clamped, the others returned.
validateProps(a) ==
  IF Lt(a, Num(0)) \/ Gt(a, Num(1000))
  THEN MathMax(Num(0), MathMin(Num(1000), a))
  ELSE a

\* safeAmplitude = computed(() => validateProps(props)), for the numbers the
\* renderer is driven with
safeAmplitude == validateProps(Num(audioAmplitude)).v

\* the ring.map(...) callback of updateInnerRings
AdvanceRing(ring) ==
  LET newProgress == ring.progress + RingStep
      newOpacity  == Max(0, 5000 - 6 * newProgress)
  IN  [progress |-> newProgress, opacity |-> newOpacity]

FilterVisible_KeepAll(rings) == rings

\* Array.prototype.filter(ring => ring.opacity > 0)
RECURSIVE FilterVisible(_)
FilterVisible(rings) ==
  IF rings = <<>> THEN <<>>
  ELSE IF Head(rings).opacity > 0
       THEN <<Head(rings)>> \o FilterVisible(Tail(rings))
       ELSE FilterVisible(Tail(rings))

\* Mutant: the spawn test forgets the length === 1 condition.
SpawnRing_AnyLength(rings) ==
  IF Len(rings) = 0 THEN Append(rings, NewRing)
  ELSE IF rings[Len(rings)].progress > RING_SPAWN_THRESHOLD
       THEN Append(rings, NewRing)
       ELSE rings

\* Mutant: the spawn test does not look at the progress.
SpawnRing_NoThreshold(rings) ==
  IF Len(rings) <= 1 THEN Append(rings, NewRing) ELSE rings

\* "Add new ring if needed"
SpawnRing(rings) ==
  IF Len(rings) = 0 THEN Append(rings, NewRing)
  ELSE IF Len(rings) = 1
       THEN IF rings[1].progress > RING_SPAWN_THRESHOLD
            THEN Append(rings, NewRing)
            ELSE rings
       ELSE rings

updateInnerRings(rings) ==
  LET spawned == SpawnRing(rings)
  IN  FilterVisible([i \in 1..Len(spawned) |-> AdvanceRing(spawned[i])])

\* Mutant: the decay branch is dropped, the value follows the input.
updateEffectiveAmplitude_NoDecay(timestamp, targetAmplitude, eff, last) ==
  [eff |-> targetAmplitude, last |-> timestamp]

\* Mutant: the decay is a fixed amount per frame, as for a 16 ms frame.
updateEffectiveAmplitude_PerFrame(timestamp, targetAmplitude, eff, last) ==
  IF last = 0
  THEN [eff |-> targetAmplitude, last |-> timestamp]
  ELSE IF targetAmplitude > eff
       THEN [eff |-> targetAmplitude, last |-> timestamp]
       ELSE [eff |-> Max(targetAmplitude, eff - AMPLITUDE_DECAY_RATE * 16),
             last |-> timestamp]

\* updateEffectiveAmplitude: the new (effectiveAmplitude, lastTimestamp)
updateEffectiveAmplitude(timestamp, targetAmplitude, eff, last) ==
  IF last = 0
  THEN [eff |-> targetAmplitude, last |-> timestamp]
  ELSE LET deltaMs == timestamp - last
           decay   == AMPLITUDE_DECAY_RATE * deltaMs
       IN  IF targetAmplitude > eff
           THEN [eff |-> targetAmplitude, last |-> timestamp]
           ELSE [eff |-> Max(targetAmplitude, eff - decay), last |-> timestamp]

NoFrame == [state |-> "none", input |-> 0, before |-> 0, dt |-> 0, rings |-> 0]

NoRun == [active |-> FALSE, input |-> 0, start |-> 0, t0 |-> 0]

----------------------------------------------------------------------------
\* ChatStatus operations

StatusInit ==
  /\ state \in StatusStates
  /\ audioAmplitude = 0
  /\ ctx = FALSE
  /\ innerRings = <<>>
  /\ effectiveAmplitude = 0
  /\ lastTimestamp = 0
  /\ statusFrame = FALSE
  /\ statusPhase = "setup"
  /\ stateWatcher = FALSE
  /\ clock = 0
  /\ switched = "no"
  /\ lastFrame = NoFrame
  /\ decayRun = NoRun

\* onMounted: initCanvas() (getContext may return null), then the first
\* requestAnimationFrame(animate).
StatusMounted ==
  /\ UNCHANGED notStatus
  /\ statusPhase = "setup"
  /\ \E ok \in BOOLEAN : ctx' = ok
  /\ statusFrame' = TRUE
  /\ statusPhase' = "mounted"
  /\ UNCHANGED <<state, audioAmplitude, innerRings, effectiveAmplitude,
                 lastTimestamp, stateWatcher, clock, switched, lastFrame,
                 decayRun>>

\* watch(props.size): initCanvas() again; a failed getContext returns before
\* ctx.value is assigned.
SizeChanged ==
  /\ UNCHANGED notStatus
  /\ statusPhase = "mounted"
  /\ ~stateWatcher
  /\ \E ok \in BOOLEAN : ctx' = (ctx \/ ok)
  /\ ctx' # ctx
  /\ UNCHANGED <<state, audioAmplitude, innerRings, effectiveAmplitude,
                 lastTimestamp, statusFrame, statusPhase, stateWatcher, clock,
                 switched, lastFrame,
                 decayRun>>

\* The parent binds another value to audio-amplitude.
SetAudioAmplitude ==
  /\ UNCHANGED notStatus
  /\ statusPhase = "mounted"
  /\ ~stateWatcher
  /\ \E a \in AmplitudeInputs : audioAmplitude' = a
  /\ audioAmplitude' # audioAmplitude
  /\ UNCHANGED <<state, ctx, innerRings, effectiveAmplitude, lastTimestamp,
                 statusFrame, statusPhase, stateWatcher, clock, switched,
                 lastFrame, decayRun>>

\* The parent binds another value to state: the watcher job is queued.
SetState ==
  /\ UNCHANGED notStatus
  /\ statusPhase = "mounted"
  /\ ~stateWatcher
  /\ \E s \in StatusStates \ {state} : state' = s
  /\ stateWatcher' = TRUE
  /\ switched' = IF innerRings # <<>> \/ effectiveAmplitude # 0
                    \/ lastTimestamp # 0
                 THEN "dirty" ELSE "clean"
  /\ lastFrame' = NoFrame
  /\ decayRun' = NoRun
  /\ UNCHANGED <<audioAmplitude, ctx, innerRings, effectiveAmplitude,
                 lastTimestamp, statusFrame, statusPhase, clock>>

\* Mutant: the watcher forgets the ring list.
ResetAccumulators_KeepRings ==
  /\ effectiveAmplitude' = 0
  /\ lastTimestamp' = 0
  /\ innerRings' = innerRings

\* the body of the watch(props.state) callback
ResetAccumulators ==
  /\ effectiveAmplitude' = 0
  /\ lastTimestamp' = 0
  /\ innerRings' = <<>>

\* watch(() => props.state, ...): the queued job runs in the same task as the
\* prop update, before any animation frame callback can.
StateWatcherRun ==
  /\ UNCHANGED notStatus
  /\ stateWatcher
  /\ ResetAccumulators
  /\ stateWatcher' = FALSE
  /\ UNCHANGED <<state, audioAmplitude, ctx, statusFrame, statusPhase, clock,
                 switched, lastFrame,
                 decayRun>>

\* drawListeningState: returns early without a context, else updates rings.
drawListeningState(timestamp) ==
  /\ innerRings' = IF ctx THEN updateInnerRings(innerRings) ELSE innerRings
  /\ lastFrame' = IF ctx
                  THEN [state |-> "listening", input |-> 0,
                        before |-> IF innerRings = <<>> THEN 0
                                   ELSE innerRings[Len(innerRings)].progress,
                        dt |-> timestamp - clock, rings |-> Len(innerRings)]
                  ELSE [NoFrame EXCEPT !.state = "skipped"]
  /\ UNCHANGED <<effectiveAmplitude, lastTimestamp>>

\* drawSpeakingState: returns early without a context, else updates the
\* effective amplitude from safeAmplitude.
drawSpeakingState(timestamp) ==
  LET r == updateEffectiveAmplitude(timestamp, safeAmplitude,
                                    effectiveAmplitude, lastTimestamp)
  IN  /\ effectiveAmplitude' = IF ctx THEN r.eff ELSE effectiveAmplitude
      /\ lastTimestamp' = IF ctx THEN r.last ELSE lastTimestamp
      /\ lastFrame' = IF ctx
                      THEN [state |-> "speaking", input |-> audioAmplitude,
                            before |-> effectiveAmplitude,
                            dt |-> timestamp - lastTimestamp, rings |-> 0]
                      ELSE [NoFrame EXCEPT !.state = "skipped"]
      /\ UNCHANGED innerRings

\* drawWaitingState touches no accumulator.
drawWaitingState(timestamp) ==
  /\ lastFrame' = [NoFrame EXCEPT !.state = "waiting"]
  /\ UNCHANGED <<innerRings, effectiveAmplitude, lastTimestamp>>

\* animate(timestamp): one animation frame, at a timestamp up to maxTime;
\* reschedules itself.
AnimateUpTo(maxTime) ==
  /\ UNCHANGED notStatus
  /\ statusFrame
  /\ ~stateWatcher
  /\ \E d \in FrameIntervals :
       LET timestamp == clock + d
       IN  /\ timestamp <= maxTime
           /\ clock' = timestamp
           /\ CASE state = "waiting"   -> drawWaitingState(timestamp)
                [] state = "listening" -> drawListeningState(timestamp)
                [] state = "speaking"  -> drawSpeakingState(timestamp)
  /\ statusFrame' = TRUE
  /\ switched' = "no"
  /\ UNCHANGED <<state, audioAmplitude, ctx, statusPhase, stateWatcher>>

Animate == AnimateUpTo(MaxTime) /\ UNCHANGED decayRun

\* decayRun after a frame: a Speaking frame that read another input than the
\* one before begins a new run at the value it left.
TrackRun ==
  IF state = "speaking" /\ ctx
     /\ ~(decayRun.active /\ decayRun.input = safeAmplitude)
  THEN [active |-> TRUE, input |-> safeAmplitude,
        start |-> effectiveAmplitude', t0 |-> lastTimestamp']
  ELSE decayRun

\* animate(timestamp) over a short stretch of time, the runs of equal input
\* recorded
DecayAnimate == AnimateUpTo(DecayMaxTime) /\ decayRun' = TrackRun

\* onBeforeUnmount: cancelAnimationFrame(animationFrame.value)
StatusUnmounted ==
  /\ UNCHANGED notStatus
  /\ statusPhase = "mounted"
  /\ ~stateWatcher
  /\ statusPhase' = "unmounted"
  /\ statusFrame' = FALSE
  /\ UNCHANGED <<state, audioAmplitude, ctx, innerRings, effectiveAmplitude,
                 lastTimestamp, stateWatcher, clock, switched, lastFrame,
                 decayRun>>

StatusNext ==
  \/ StatusMounted
  \/ SizeChanged
  \/ SetAudioAmplitude
  \/ SetState
  \/ StateWatcherRun
  \/ Animate
  \/ StatusUnmounted

DecayNext ==
  \/ StatusMounted
  \/ SizeChanged
  \/ SetAudioAmplitude
  \/ SetState
  \/ StateWatcherRun
  \/ DecayAnimate
  \/ StatusUnmounted


----------------------------------------------------------------------------
\* useAudioRecorder

\* the worker's reference level: rms / 0.5
ReferenceLevel == 500

\* requestAnimationFrame handles; a handle is reused once it is neither
\* pending nor held in animationFrame.
RafIds == 1..(MaxStarts + 1)

FreshRaf(pending, held) ==
  CHOOSE id \in RafIds \ (pending \cup {held}) :
    \A other \in RafIds \ (pending \cup {held}) : id <= other

Analyze_NoClamp(rms) == (rms * 1000) \div ReferenceLevel

\* the worker's self.onmessage: Math.min(1, rms / 0.5) of the buffer's RMS
Analyze(rms) == Min(1000, (rms * 1000) \div ReferenceLevel)

\* sum += buffer[i] * buffer[i], over the buffer (samples in thousandths)
RECURSIVE SumOfSquares(_)
SumOfSquares(buffer) ==
  IF buffer = <<>> THEN 0
  ELSE Head(buffer) * Head(buffer) + SumOfSquares(Tail(buffer))

\* Math.sqrt, rounded down to a whole number
Sqrt(n) == CHOOSE r \in 0 .. n : r * r <= n /\ n < (r + 1) * (r + 1)

\* Math.sqrt(sum / buffer.length), in thousandths
Rms(buffer) == Sqrt(SumOfSquares(buffer) \div Len(buffer))

\* the worker's self.onmessage applied to a buffer of samples
AnalyzeBuffer(buffer) == Analyze(Rms(buffer))

Op(name) == [op |-> name, createdWorker |-> FALSE, wasRecording |-> FALSE,
             value |-> 0, before |-> 0]

RecorderInit ==
  /\ amplitude = 0
  /\ isRecording = FALSE
  /\ mediaRecorder = 0
  /\ audioContext = 0
  /\ analyzerNode = 0
  /\ sourceNode = 0
  /\ animationFrame = 0
  /\ worker = 0
  /\ stream = 0
  /\ sessions = 0
  /\ liveStreams = {}
  /\ openContexts = {}
  /\ activeRecorders = {}
  /\ connectedSources = {}
  /\ rafPending = {}
  /\ workerAlive = FALSE
  /\ inbox = <<>>
  /\ outbox = <<>>
  /\ pendingStarts = <<>>
  /\ recorderPhase = "active"
  /\ startCalls = 0
  /\ stopError = FALSE
  /\ lastOp = Op("none")
  /\ stopsInRow = 0
  /\ stopped = FALSE

\* analyzeAudio with the values (an, rec, w, alive) it reads: the new inbox,
\* rafPending and animationFrame.  `pending` no longer holds the handle of the
\* callback that is running.
analyzeAudio(an, rec, w, pending, held, box) ==
  IF an = 0 \/ ~rec
  THEN [inbox |-> box, rafPending |-> pending, animationFrame |-> held]
  ELSE LET id == FreshRaf(pending, held)
       IN  [inbox |-> box, rafPending |-> pending \cup {id},
            animationFrame |-> id]

\* worker?.postMessage({type: 'analyze', buffer}): a terminated worker drops it
PostAnalyze(box, w, alive, level) ==
  IF w # 0 /\ alive THEN Append(box, level) ELSE box

\* startRecording up to the await: initWorker() if there is no worker, then
\* getUserMedia is requested.
startRecordingToAwait ==
  /\ recorderPhase = "active"
  /\ startCalls < MaxStarts
  /\ startCalls' = startCalls + 1
  /\ worker' = 1
  /\ workerAlive' = IF worker = 0 THEN TRUE ELSE workerAlive
  /\ pendingStarts' = Append(pendingStarts, [createdWorker |-> worker = 0])
  /\ lastOp' = Op("startRecording")
  /\ stopsInRow' = 0
  /\ stopped' = FALSE
  /\ UNCHANGED <<amplitude, isRecording, mediaRecorder, audioContext,
                 analyzerNode, sourceNode, animationFrame, stream, sessions,
                 liveStreams, openContexts, activeRecorders, connectedSources,
                 rafPending, inbox, outbox, recorderPhase, stopError>>

\* startRecording() called on the composable by its owner
StartRecordingCall == UNCHANGED notRecorder /\ startRecordingToAwait

RemoveAt(seq, i) == SubSeq(seq, 1, i - 1) \o SubSeq(seq, i + 1, Len(seq))

\* getUserMedia resolves: the rest of startRecording's try block.
StartRecordingResume ==
  /\ UNCHANGED notRecorder
  /\ \E i \in DOMAIN pendingStarts, level \in BufferLevels :
         LET n == sessions + 1
             posted == PostAnalyze(inbox, worker, workerAlive, level)
             a == analyzeAudio(n, TRUE, worker, rafPending, animationFrame, posted)
         IN  /\ Len(inbox) + Len(outbox) < MaxInFlight
             /\ pendingStarts' = RemoveAt(pendingStarts, i)
             /\ sessions' = n
             /\ stream' = n
             /\ liveStreams' = liveStreams \cup {n}
             \* initAudio(stream)
             /\ audioContext' = n
             /\ openContexts' = openContexts \cup {n}
             /\ analyzerNode' = n
             /\ sourceNode' = n
             /\ connectedSources' = connectedSources \cup {n}
             \* new MediaRecorder(stream); mediaRecorder.start()
             /\ mediaRecorder' = n
             /\ activeRecorders' = activeRecorders \cup {n}
             /\ isRecording' = TRUE
             \* analyzeAudio()
             /\ inbox' = a.inbox
             /\ rafPending' = a.rafPending
             /\ animationFrame' = a.animationFrame
             /\ lastOp' = Op("startFulfilled")
             /\ stopsInRow' = 0
             /\ UNCHANGED stopped
             /\ UNCHANGED <<amplitude, worker, workerAlive, outbox, recorderPhase,
                            startCalls, stopError>>

\* getUserMedia rejects: the catch block logs and rethrows.
StartRecordingReject ==
  /\ UNCHANGED notRecorder
  /\ \E i \in DOMAIN pendingStarts :
         /\ pendingStarts' = RemoveAt(pendingStarts, i)
         /\ lastOp' = [Op("startRejected") EXCEPT
                         !.createdWorker = pendingStarts[i].createdWorker,
                         !.wasRecording = isRecording]
         /\ stopsInRow' = 0
         /\ UNCHANGED stopped
         /\ UNCHANGED <<amplitude, isRecording, mediaRecorder, audioContext,
                        analyzerNode, sourceNode, animationFrame, worker, stream,
                        sessions, liveStreams, openContexts, activeRecorders,
                        connectedSources, rafPending, workerAlive, inbox, outbox,
                        recorderPhase, startCalls, stopError>>

\* A pending analyzeAudio callback runs.
SamplingFrame ==
  /\ UNCHANGED notRecorder
  /\ \E id \in rafPending, level \in BufferLevels :
         LET dispatch == analyzerNode # 0 /\ isRecording
             posted == IF dispatch
                       THEN PostAnalyze(inbox, worker, workerAlive, level)
                       ELSE inbox
             a == analyzeAudio(analyzerNode, isRecording, worker,
                               rafPending \ {id}, animationFrame, posted)
         IN  /\ dispatch => Len(inbox) + Len(outbox) < MaxInFlight
             /\ inbox' = a.inbox
             /\ rafPending' = a.rafPending
             /\ animationFrame' = a.animationFrame
             /\ lastOp' = [Op("analyzeAudio") EXCEPT !.wasRecording = isRecording,
                                                    !.value = Len(posted) - Len(inbox)]
             /\ stopsInRow' = 0
             /\ UNCHANGED stopped
             /\ UNCHANGED <<amplitude, isRecording, mediaRecorder, audioContext,
                            analyzerNode, sourceNode, worker, stream, sessions,
                            liveStreams, openContexts, activeRecorders,
                            connectedSources, workerAlive, outbox, pendingStarts,
                            recorderPhase, startCalls, stopError>>

\* The worker processes one 'analyze' message and posts the result.
WorkerAnalyze ==
  /\ UNCHANGED notRecorder
  /\ workerAlive
  /\ inbox # <<>>
  /\ inbox' = Tail(inbox)
  /\ outbox' = Append(outbox, Analyze(Head(inbox)))
  /\ UNCHANGED <<amplitude, isRecording, mediaRecorder, audioContext,
                 analyzerNode, sourceNode, animationFrame, worker, stream,
                 sessions, liveStreams, openContexts, activeRecorders,
                 connectedSources, rafPending, workerAlive, pendingStarts,
                 recorderPhase, startCalls, stopError, lastOp,
                 stopsInRow, stopped>>

\* Mutant: the handler keeps the larger of the old and the new value.
OnMessageValue_KeepMax(current, value) == Max(current, value)

\* worker.onmessage: amplitude.value = e.data.value
OnMessageValue(current, value) == value

\* A response of the worker is delivered to worker.onmessage.
WorkerOnMessage ==
  /\ UNCHANGED notRecorder
  /\ workerAlive
  /\ outbox # <<>>
  /\ outbox' = Tail(outbox)
  /\ amplitude' = OnMessageValue(amplitude, Head(outbox))
  /\ lastOp' = [Op("onmessage") EXCEPT !.value = Head(outbox),
                                      !.before = amplitude,
                                      !.wasRecording = isRecording]
  /\ stopsInRow' = 0
  /\ UNCHANGED stopped
  /\ UNCHANGED <<isRecording, mediaRecorder, audioContext, analyzerNode,
                 sourceNode, animationFrame, worker, stream, sessions,
                 liveStreams, openContexts, activeRecorders, connectedSources,
                 rafPending, workerAlive, inbox, pendingStarts, recorderPhase,
                 startCalls, stopError>>

\* The body of stopRecording: the new values of what it writes.  Stopping a
\* MediaRecorder that is not recording throws and ends the function there.
stopRecordingBody ==
  IF mediaRecorder # 0 /\ isRecording
  THEN IF mediaRecorder \notin activeRecorders
       THEN [thrown |-> TRUE, activeRecorders |-> activeRecorders,
             connectedSources |-> connectedSources, rafPending |-> rafPending,
             liveStreams |-> liveStreams, isRecording |-> isRecording,
             amplitude |-> amplitude]
       ELSE [thrown |-> FALSE,
             activeRecorders |-> activeRecorders \ {mediaRecorder},
             connectedSources |-> connectedSources \ {sourceNode},
             rafPending |-> rafPending \ {animationFrame},
             liveStreams |-> liveStreams \ {stream},
             isRecording |-> FALSE,
             amplitude |-> 0]
  ELSE [thrown |-> FALSE, activeRecorders |-> activeRecorders,
        connectedSources |-> connectedSources, rafPending |-> rafPending,
        liveStreams |-> liveStreams, isRecording |-> isRecording,
        amplitude |-> amplitude]

\* one call of stopRecording(): what it writes and what it leaves
stopRecordingCall ==
     LET r == stopRecordingBody
       IN  /\ recorderPhase = "active"
           /\ activeRecorders' = r.activeRecorders
           /\ connectedSources' = r.connectedSources
           /\ rafPending' = r.rafPending
           /\ liveStreams' = r.liveStreams
           /\ isRecording' = r.isRecording
           /\ amplitude' = r.amplitude
           /\ stopError' = (stopError \/ r.thrown)
           /\ lastOp' = [Op("stopRecording") EXCEPT
                           !.wasRecording = (mediaRecorder # 0 /\ isRecording)]
           /\ stopsInRow' = Min(2, stopsInRow + 1)
           /\ stopped' = (stopped \/ (r.amplitude = 0 /\ isRecording /\ ~r.isRecording))
           /\ UNCHANGED <<mediaRecorder, audioContext, analyzerNode, sourceNode,
                          animationFrame, worker, stream, sessions, openContexts,
                          workerAlive, inbox, outbox, pendingStarts, recorderPhase,
                          startCalls>>

\* stopRecording() called on the composable by its owner
StopRecording == UNCHANGED notRecorder /\ stopRecordingCall

\* onUnmounted: stopRecording(); worker?.terminate(); audioContext?.close()
RecorderUnmounted ==
  /\ UNCHANGED notRecorder
  /\ LET r == stopRecordingBody
       IN  /\ recorderPhase = "active"
           /\ recorderPhase' = "unmounted"
           /\ activeRecorders' = r.activeRecorders
           /\ connectedSources' = r.connectedSources
           /\ rafPending' = r.rafPending
           /\ liveStreams' = r.liveStreams
           /\ isRecording' = r.isRecording
           /\ amplitude' = r.amplitude
           /\ stopError' = (stopError \/ r.thrown)
           /\ workerAlive' = IF r.thrown THEN workerAlive ELSE FALSE
           /\ inbox' = IF r.thrown THEN inbox ELSE <<>>
           /\ outbox' = IF r.thrown THEN outbox ELSE <<>>
           /\ openContexts' = IF r.thrown THEN openContexts
                              ELSE openContexts \ {audioContext}
           /\ lastOp' = Op("onUnmounted")
           /\ stopsInRow' = 0
           /\ stopped' = (stopped \/ (r.amplitude = 0 /\ isRecording /\ ~r.isRecording))
           /\ UNCHANGED <<mediaRecorder, audioContext, analyzerNode, sourceNode,
                          animationFrame, worker, stream, sessions, pendingStarts,
                          startCalls>>

RecorderNext ==
  \/ StartRecordingCall
  \/ StartRecordingResume
  \/ StartRecordingReject
  \/ SamplingFrame
  \/ WorkerAnalyze
  \/ WorkerOnMessage
  \/ StopRecording
  \/ RecorderUnmounted

----------------------------------------------------------------------------
\* App.vue: the buttons select the state, the watcher drives the recorder

\* what selecting a state leaves alone outside the recorder
notSelected == <<audioAmplitude, ctx, innerRings, effectiveAmplitude,
                 lastTimestamp, statusFrame, statusPhase, stateWatcher, clock,
                 switched, lastFrame, decayRun, chartVars, clampVars,
                 analysisVars, simulatorVars>>

\* @click="state = ..." with another value, and the watch(state) callback that
\* runs in the same task: startRecording() for 'speaking', else
\* stopRecording().
SelectState ==
  /\ UNCHANGED notSelected
  /\ \E s \in StatusStates \ {state} :
       /\ state' = s
       /\ IF s = "speaking" THEN startRecordingToAwait ELSE stopRecordingCall

AppNext ==
  \/ SelectState
  \/ StartRecordingResume
  \/ StartRecordingReject
  \/ SamplingFrame
  \/ WorkerAnalyze
  \/ WorkerOnMessage
  \/ RecorderUnmounted

----------------------------------------------------------------------------
\* Visualiser

\* Array.prototype.filter(point => point.timestamp >= cutoffTime)
RECURSIVE FilterRecent(_, _)
FilterRecent(points, cutoffTime) ==
  IF points = <<>> THEN <<>>
  ELSE IF Head(points).timestamp >= cutoffTime
       THEN <<Head(points)>> \o FilterRecent(Tail(points), cutoffTime)
       ELSE FilterRecent(Tail(points), cutoffTime)

\* no chart frame has run yet
NoChartFrame == [kind |-> "none", input |-> 0, prevPeak |-> 0, peakAfter |-> 0,
                 zeroed |-> FALSE, before |-> <<>>, fresh |-> FALSE,
                 first |-> 0]

\* peakSince.frame: the largest sample appended since the last frame that read
\* 0; peakSince.prop: the largest sample appended since props.amplitude last
\* changed to 0; peakSince.zeroed: it changed to 0 since the latest frame.
NoSamples == [frame |-> 0, prop |-> 0, zeroed |-> FALSE]

ChartInit ==
  /\ lastChartFrame = NoChartFrame
  /\ peakSince = NoSamples
  /\ chartAmplitude \in AmplitudeInputs
  /\ historySeconds \in HistorySecondsInputs
  /\ chartCtx = FALSE
  /\ history = <<>>
  /\ currentAmplitude = 0
  /\ peakAmplitude = 0
  /\ chartFrame = FALSE
  /\ chartPhase = "setup"
  /\ amplitudeWatcher = FALSE
  /\ chartClock = 0

\* onMounted: initCanvas() (returns without a context if getContext fails),
\* then the first requestAnimationFrame(drawVisualization).
ChartMounted ==
  /\ UNCHANGED notChart
  /\ chartPhase = "setup"
  /\ \E ok \in BOOLEAN : chartCtx' = ok
  /\ chartFrame' = TRUE
  /\ chartPhase' = "mounted"
  /\ UNCHANGED <<chartAmplitude, historySeconds, history, currentAmplitude,
                 peakAmplitude, amplitudeWatcher, chartClock, lastChartFrame,
                 peakSince>>

\* The parent binds another value, one of `inputs`, to amplitude: the watcher
\* job is queued.
SetChartAmplitudeFrom(inputs) ==
  /\ UNCHANGED notChart
  /\ chartPhase = "mounted"
  /\ ~amplitudeWatcher
  /\ \E a \in inputs \ {chartAmplitude} :
       /\ chartAmplitude' = a
       /\ peakSince' = IF a = 0
                       THEN [peakSince EXCEPT !.prop = 0, !.zeroed = TRUE]
                       ELSE peakSince
  /\ amplitudeWatcher' = TRUE
  /\ lastChartFrame' = [lastChartFrame EXCEPT !.fresh = FALSE]
  /\ UNCHANGED <<historySeconds, chartCtx, history, currentAmplitude,
                 peakAmplitude, chartFrame, chartPhase, chartClock>>

SetChartAmplitude == SetChartAmplitudeFrom(AmplitudeInputs)

ResetPeak_Never(newValue, peak) == peak

\* the watch(props.amplitude) callback: a new value of 0 resets the peak
ResetPeak(newValue, peak) == IF newValue = 0 THEN 0 ELSE peak

\* watch(() => props.amplitude, ...): the queued job runs in the same task as
\* the prop update, before any animation frame callback can.
AmplitudeWatcherRun ==
  /\ UNCHANGED notChart
  /\ amplitudeWatcher
  /\ amplitudeWatcher' = FALSE
  /\ peakAmplitude' = ResetPeak(chartAmplitude, peakAmplitude)
  /\ UNCHANGED <<chartAmplitude, historySeconds, chartCtx, history,
                 currentAmplitude, chartFrame, chartPhase, chartClock,
                 lastChartFrame, peakSince>>

\* const cutoffTime = timestamp - (props.historySeconds * 1000)
CutoffTime_NoMillis(timestamp, seconds) == timestamp - seconds

CutoffTime(timestamp, seconds) == timestamp - seconds * 1000

UpdateHistory_NoPrune(points, timestamp, value, seconds) ==
  Append(points, [timestamp |-> timestamp, value |-> value])

\* "Update history": push, then filter by the cutoff
UpdateHistory(points, timestamp, value, seconds) ==
  LET cutoffTime == CutoffTime(timestamp, seconds)
  IN  FilterRecent(Append(points, [timestamp |-> timestamp, value |-> value]),
                   cutoffTime)

UpdatePeak_Latest(peak, value) == value

\* peakAmplitude.value = Math.max(peakAmplitude.value, props.amplitude)
UpdatePeak(peak, value) == Max(peak, value)

\* drawVisualization(timestamp): returns, without rescheduling, when there is
\* no context; else updates history and statistics and reschedules itself.
\* The frame comes one of `intervals` after the previous one, up to `maxTime`.
DrawVisualizationAfter(intervals, maxTime) ==
  /\ UNCHANGED notChart
  /\ chartFrame
  /\ ~amplitudeWatcher
  /\ \E d \in intervals :
       LET timestamp == chartClock + d
       IN  /\ timestamp <= maxTime
           /\ chartClock' = timestamp
           /\ IF chartCtx
              THEN /\ history' = UpdateHistory(history, timestamp,
                                               chartAmplitude, historySeconds)
                   /\ currentAmplitude' = chartAmplitude
                   /\ peakAmplitude' = UpdatePeak(peakAmplitude, chartAmplitude)
                   /\ chartFrame' = TRUE
                   /\ lastChartFrame' =
                        [kind |-> "drawn", input |-> chartAmplitude,
                         prevPeak |-> lastChartFrame.peakAfter,
                         peakAfter |-> peakAmplitude',
                         zeroed |-> peakSince.zeroed,
                         before |-> history, fresh |-> TRUE,
                         first |-> IF lastChartFrame.kind = "drawn"
                                   THEN lastChartFrame.first ELSE timestamp]
                   /\ peakSince' =
                        [frame |-> IF chartAmplitude = 0 THEN 0
                                   ELSE Max(peakSince.frame, chartAmplitude),
                         prop |-> Max(peakSince.prop, chartAmplitude),
                         zeroed |-> FALSE]
              ELSE /\ chartFrame' = FALSE
                   /\ lastChartFrame' =
                        [lastChartFrame EXCEPT !.kind = "skipped",
                                               !.fresh = TRUE]
                   /\ UNCHANGED <<history, currentAmplitude, peakAmplitude,
                                  peakSince>>
  /\ UNCHANGED <<chartAmplitude, historySeconds, chartCtx, chartPhase,
                 amplitudeWatcher>>

DrawVisualization == DrawVisualizationAfter(ChartIntervals, ChartMaxTime)

\* onBeforeUnmount: cancelAnimationFrame(animationFrame.value)
ChartUnmounted ==
  /\ UNCHANGED notChart
  /\ chartPhase = "mounted"
  /\ ~amplitudeWatcher
  /\ chartPhase' = "unmounted"
  /\ chartFrame' = FALSE
  /\ UNCHANGED <<chartAmplitude, historySeconds, chartCtx, history,
                 currentAmplitude, peakAmplitude, amplitudeWatcher, chartClock,
                 lastChartFrame, peakSince>>

ChartNext ==
  \/ ChartMounted
  \/ SetChartAmplitude
  \/ AmplitudeWatcherRun
  \/ DrawVisualization
  \/ ChartUnmounted

\* The chart fed at a steady rate: a frame every 100 ms, the
\* amplitude moving between silence and a loud level.
SteadySetChartAmplitude == SetChartAmplitudeFrom(SteadyInputs)

SteadyDrawVisualization ==
  DrawVisualizationAfter(SteadyIntervals, SteadyMaxTime)

SteadyChartNext ==
  \/ ChartMounted
  \/ SteadySetChartAmplitude
  \/ AmplitudeWatcherRun
  \/ SteadyDrawVisualization
  \/ ChartUnmounted

----------------------------------------------------------------------------
\* validateProps on its own

\* the numbers validateProps is called with
ClampInputs == {Num(v) : v \in -150 .. 1150} \cup {NaN}

ClampInit == clampCall = [done |-> FALSE, x |-> Num(0), result |-> Num(0)]

\* validateProps({ audioAmplitude: x })
ValidatePropsCall ==
  /\ UNCHANGED notClamp
  /\ \E x \in ClampInputs :
       clampCall' = [done |-> TRUE, x |-> x, result |-> validateProps(x)]

ClampNext == ValidatePropsCall

----------------------------------------------------------------------------
\* The analysis worker on its own

\* sample values (thousandths) and the buffers posted to the worker
SampleValues == {100 * k : k \in -10 .. 10}
SampleBuffers == [1 .. 2 -> SampleValues]

AnalysisInit == analysis = [done |-> FALSE, buffer |-> <<>>, result |-> 0]

\* worker.postMessage({ type: 'analyze', buffer }), once the worker is idle
PostBuffer ==
  /\ UNCHANGED notAnalysis
  /\ analysis.done \/ analysis.buffer = <<>>
  /\ \E buffer \in SampleBuffers :
       analysis' = [done |-> FALSE, buffer |-> buffer, result |-> 0]

\* self.onmessage: computes the amplitude of the buffer and posts it back
AnalyzeCall ==
  /\ UNCHANGED notAnalysis
  /\ ~analysis.done
  /\ analysis.buffer # <<>>
  /\ analysis' = [analysis EXCEPT !.done = TRUE,
                                  !.result = AnalyzeBuffer(analysis.buffer)]

AnalysisNext ==
  \/ PostBuffer
  \/ AnalyzeCall

----------------------------------------------------------------------------
\* AudioSimulator

baseAmplitude == 400
maxAmplitude == 1000
jitter == 150
pauseProbability == 30
pauseDuration == 200
phraseDuration == 800
emphasisProbability == 200

SimulatorInit ==
  /\ isPaused = FALSE
  /\ pauseEndTime = 0
  /\ lastUpdate = 0
  /\ currentPhrase = 0
  /\ phraseProgress = 0
  /\ simClock = 0
  /\ simResult = 0
  /\ simLog = [entered |-> -1, raw |-> 0]

PauseEnd_NoDuration(timestamp) == timestamp

\* this.pauseEndTime = timestamp + this.pauseDuration
PauseEnd(timestamp) == timestamp + pauseDuration

\* (timestamp % this.phraseDuration) / this.phraseDuration
PhraseProgress(timestamp) == ((timestamp % phraseDuration) * 1000) \div phraseDuration

\* Math.pow(Math.sin(progress * Math.PI), 2) = (1 - cos(2 pi progress)) / 2,
\* by eighths of a phrase (progress is a multiple of 1/8 when timestamps are
\* multiples of 100 ms)
PhraseEnvelope(progress) ==
  LET eighth == (progress * 8) \div 1000
  IN  CASE eighth \in {0}    -> 0
        [] eighth \in {1, 7} -> 146
        [] eighth \in {2, 6} -> 500
        [] eighth \in {3, 5} -> 854
        [] OTHER             -> 1000

\* baseAmplitude + (mainWave*0.4 + fastWave*0.2 + slowWave*0.2)
\*                 * (maxAmplitude - baseAmplitude)
CombineWaves(mainWave, fastWave, slowWave) ==
  baseAmplitude +
    ((mainWave * 4 + fastWave * 2 + slowWave * 2) *
     (maxAmplitude - baseAmplitude)) \div 10000

\* the emphasis peak: Math.pow(sine, 2) * 0.3 with probability 0.2
Emphasis(draw, sine) ==
  IF draw < emphasisProbability
  THEN (((sine * sine) \div 1000) * 3) \div 10
  ELSE 0

\* (Math.random() - 0.5) * this.jitter
Jitter(draw) == ((draw - 500) * jitter) \div 1000

\* the amplitude before the final clamp
RawAmplitude(progress, mainWave, fastWave, slowWave, emphasis, jitterDraw) ==
  (CombineWaves(mainWave, fastWave, slowWave) * PhraseEnvelope(progress))
      \div 1000
    + emphasis + Jitter(jitterDraw)

ClampResult_NoFloor(a) == Min(maxAmplitude, a)

\* Math.max(0, Math.min(this.maxAmplitude, amplitude))
ClampResult(a) == Max(0, Min(maxAmplitude, a))

\* getAmplitude(timestamp), called with a timestamp later than the last one.
\* Each Math.random() is one of RandomDraws, each wave one of SineValues.
GetAmplitude ==
  /\ UNCHANGED notSimulator
  /\ \E d \in SimIntervals, pauseDraw \in RandomDraws :
       LET timestamp == simClock + d
           resumes   == isPaused /\ timestamp >= pauseEndTime
           enters    == ~isPaused /\ pauseDraw < pauseProbability
       IN  /\ timestamp <= SimMaxTime
           /\ simClock' = timestamp
           /\ IF isPaused /\ ~resumes
              THEN \* inside the pause: return 0
                   /\ simResult' = 0
                   /\ UNCHANGED <<isPaused, pauseEndTime, lastUpdate,
                                  currentPhrase, phraseProgress, simLog>>
              ELSE IF enters
              THEN \* a pause begins: return 0
                   /\ isPaused' = TRUE
                   /\ pauseEndTime' = PauseEnd(timestamp)
                   /\ simResult' = 0
                   /\ simLog' = [simLog EXCEPT !.entered = timestamp]
                   /\ UNCHANGED <<lastUpdate, currentPhrase, phraseProgress>>
              ELSE \E phraseDraw, emphasisDraw, jitterDraw \in RandomDraws,
                      mainWave, fastWave, slowWave, peak \in SineValues :
                     LET progress == PhraseProgress(timestamp)
                         raw == RawAmplitude(progress, mainWave, fastWave,
                                             slowWave,
                                             Emphasis(emphasisDraw, peak),
                                             jitterDraw)
                     IN  /\ isPaused' = FALSE
                         /\ phraseProgress' = progress
                         /\ currentPhrase' = IF progress < lastUpdate
                                              THEN phraseDraw
                                              ELSE currentPhrase
                         /\ lastUpdate' = progress
                         /\ simResult' = ClampResult(raw)
                         /\ simLog' = [simLog EXCEPT !.raw = raw]
                         /\ UNCHANGED pauseEndTime

SimulatorNext == GetAmplitude

----------------------------------------------------------------------------
\* Specifications: each component is driven on its own.

Init ==
  /\ StatusInit /\ RecorderInit /\ ChartInit
  /\ ClampInit /\ AnalysisInit /\ SimulatorInit

\* every component before it is mounted or used
InitIdle == Init /\ state = "waiting" /\ chartAmplitude = 0

SpecClamp == InitIdle /\ [][ClampNext]_vars

SpecSimulator == InitIdle /\ [][SimulatorNext]_vars

\* the host application: App.vue starts with state = ref('waiting')
SpecApp == InitIdle /\ [][AppNext]_vars

SpecAnalysis == InitIdle /\ [][AnalysisNext]_vars

SpecSteadyChart == InitIdle /\ [][SteadyChartNext]_vars

\* the renderer on its own
InitStatus == Init /\ chartAmplitude = 0

SpecStatus == InitStatus /\ [][StatusNext]_vars

SpecDecay == InitStatus /\ [][DecayNext]_vars

\* the recorder on its own: the renderer's props play no part
InitRecorder == Init /\ state = "waiting" /\ chartAmplitude = 0

\* the chart on its own
InitChart == Init /\ state = "waiting"

SpecChart == InitChart /\ [][ChartNext]_vars

SpecRecorder == InitRecorder /\ [][RecorderNext]_vars

----------------------------------------------------------------------------
\* ChatStatus properties

\* C1: after any change of the state prop, the next frame that can run starts
\* from an empty ring list, effective amplitude 0 and a cleared decay clock,
\* whatever the accumulators held before the switch.
C1_SwitchResetsAccumulators ==
  (switched # "no" /\ ~stateWatcher) =>
     /\ innerRings = <<>>
     /\ effectiveAmplitude = 0
     /\ lastTimestamp = 0

\* C1 witness: the state changed while accumulators were non-initial, the
\* watcher has run and the next frame is pending.
C1_Witness ==
  /\ switched = "dirty"
  /\ ~stateWatcher
  /\ statusFrame
  /\ ctx
  /\ innerRings = <<>>

\* C2: the ring-pulse list never holds more than 2 pulses.
C2_AtMostTwoRings == Len(innerRings) <= 2

\* C2 witness: two pulses coexist.
C2_Witness == Len(innerRings) = 2 /\ lastFrame.state = "listening"

\* C3: from an empty list a Listening frame leaves exactly one fresh pulse;
\* from a non-empty list a pulse is spawned only when there was a single pulse
\* whose progress already exceeded 0.4.
C3_SpawnRule ==
  (lastFrame.state = "listening") =>
     /\ (lastFrame.rings = 0 =>
           /\ Len(innerRings) = 1
           /\ innerRings[1].progress = RingStep)
     /\ (lastFrame.rings >= 1 /\ Len(innerRings) >= 1
         /\ innerRings[Len(innerRings)].progress = RingStep =>
           /\ lastFrame.rings = 1
           /\ lastFrame.before > 400)
     /\ (lastFrame.rings = 1 /\ lastFrame.before <= 400 =>
           /\ Len(innerRings) = 1
           /\ innerRings[1].progress = lastFrame.before + RingStep)

\* C3 witness: a frame that started with one pulse past 0.4 added the second.
C3_Witness ==
  /\ lastFrame.state = "listening"
  /\ lastFrame.rings = 1
  /\ lastFrame.before > 400
  /\ Len(innerRings) = 2
  /\ innerRings[2].progress = RingStep

\* C4: after a Speaking frame the effective amplitude is the clamped input if
\* that was above the previous value, else max(input, previous - 2.0 * dt);
\* from 0.8 with input 0.1 and dt = 0.1 s it is 0.6.
C4_AsymmetricResponse ==
  (lastFrame.state = "speaking") =>
     LET a    == Max(0, Min(1000, lastFrame.input))
         prev == lastFrame.before
     IN  /\ effectiveAmplitude =
              IF a > prev THEN a ELSE Max(a, prev - 2 * lastFrame.dt)
         /\ (prev = 800 /\ a = 100 /\ lastFrame.dt = 100 =>
               effectiveAmplitude = 600)

\* C4 witness: the second frame of the sequence [0.8, 0.1], 100 ms apart.
C4_Witness ==
  /\ lastFrame.state = "speaking"
  /\ lastFrame.before = 800
  /\ lastFrame.input = 100
  /\ lastFrame.dt = 100
  /\ effectiveAmplitude = 600

----------------------------------------------------------------------------
\* useAudioRecorder properties

\* C5: stopRecording called twice in a row, or before any startRecording,
\* raises no error and leaves isRecording = false and amplitude = 0.
C5_StopIdempotent ==
  (lastOp.op = "stopRecording" /\ (stopsInRow = 2 \/ startCalls = 0)) =>
     /\ ~stopError
     /\ ~isRecording
     /\ amplitude = 0

\* C6: once the component is unmounted and no startRecording is pending, no
\* stream has live tracks, the worker is terminated, no audio context is open
\* and no sampling callback that would reschedule itself is left.
C6_TeardownReleasesAll ==
  (recorderPhase = "unmounted" /\ pendingStarts = <<>>) =>
     /\ liveStreams = {}
     /\ ~workerAlive
     /\ openContexts = {}
     /\ (rafPending # {} => ~isRecording)

\* C7: right after a startRecording whose acquisition failed, nothing that the
\* call created is left: a worker it created is gone, and a call made while
\* not recording leaves isRecording false.
C7_FailedStartNoPartialState ==
  (lastOp.op = "startRejected") =>
     /\ (lastOp.createdWorker => (worker = 0 /\ ~workerAlive))
     /\ (~lastOp.wasRecording => ~isRecording)

\* C8: right after a stopRecording that was called while recording (no start
\* being pending), no sampling callback is scheduled, isRecording is false and
\* no acquired stream has live tracks; and a sampling callback dispatches a
\* buffer only while recording.
C8_StopCancelsSampling ==
  /\ (lastOp.op = "stopRecording" /\ lastOp.wasRecording
      /\ pendingStarts = <<>>) =>
        /\ rafPending = {}
        /\ ~isRecording
        /\ liveStreams = {}
  /\ (lastOp.op = "analyzeAudio" /\ lastOp.value > 0 => lastOp.wasRecording)

\* C9: while recording, right after a worker response is delivered the
\* exposed amplitude is the value that response carried.
C9_LastWriteWins ==
  (lastOp.op = "onmessage" /\ lastOp.wasRecording) =>
     amplitude = lastOp.value

\* C9 witness: a response lower than the current amplitude was delivered while
\* recording, with a later response still in flight.
C9_Witness ==
  /\ lastOp.op = "onmessage"
  /\ lastOp.wasRecording
  /\ lastOp.before > lastOp.value
  /\ amplitude = lastOp.value
  /\ outbox # <<>>

----------------------------------------------------------------------------
\* Amplitude range

InRange(a) == 0 <= a /\ a <= 1000

\* C10: every sample retained in the chart's buffer, its current and peak
\* statistics, and the amplitude the renderer draws with lie in [0,1], whatever
\* amplitude is bound to the components.
C10_StoredAmplitudesClamped ==
  /\ \A i \in DOMAIN history : InRange(history[i].value)
  /\ InRange(currentAmplitude)
  /\ InRange(peakAmplitude)
  /\ InRange(safeAmplitude)
  /\ InRange(effectiveAmplitude)

----------------------------------------------------------------------------
\* Chart peak

\* the state right after a frame that updated the chart
AfterChartFrame == lastChartFrame.kind = "drawn" /\ lastChartFrame.fresh

\* C11 as stated: after every frame the peak is the largest sample appended
\* since the last frame that read 0, and from one frame to the next it falls
\* only when the frame read 0.
C11_PeakSinceZeroFrame ==
  AfterChartFrame =>
    /\ peakAmplitude = peakSince.frame
    /\ lastChartFrame.input # 0 => peakAmplitude >= lastChartFrame.prevPeak

\* C11: after every frame the peak is the larger of 0 and the samples appended
\* since props.amplitude last changed to exactly 0 (since mount if it never
\* did), and from one frame to the next it falls only when props.amplitude
\* changed to 0 in between.
C11_PeakSinceZeroProp ==
  AfterChartFrame =>
    /\ peakAmplitude = peakSince.prop
    /\ ~lastChartFrame.zeroed => peakAmplitude >= lastChartFrame.prevPeak

\* a frame raised the peak over samples kept from earlier frames, after the
\* amplitude had passed through 0 and back between two frames
C11_Witness ==
  /\ AfterChartFrame
  /\ lastChartFrame.zeroed
  /\ lastChartFrame.input > 0
  /\ lastChartFrame.prevPeak > peakAmplitude
  /\ peakAmplitude = lastChartFrame.input

\* C12: when the amplitude a frame reads is 0, the peak is 0 after that frame,
\* whatever it was before.
C12_ZeroFrameResetsPeak ==
  (AfterChartFrame /\ lastChartFrame.input = 0) => peakAmplitude = 0

\* a frame read 0 after an earlier frame had raised the peak
C12_Witness ==
  /\ AfterChartFrame
  /\ lastChartFrame.input = 0
  /\ lastChartFrame.prevPeak > 0
  /\ peakAmplitude = 0

----------------------------------------------------------------------------
\* Chart window

\* s is what remains of t after removing elements from its head
IsTailOf(s, t) ==
  /\ Len(s) <= Len(t)
  /\ s = SubSeq(t, Len(t) - Len(s) + 1, Len(t))

\* C13: after a frame at `now` the buffer is ordered by non-decreasing
\* timestamp, ends with the sample of this frame, holds no sample older than
\* now - historySeconds*1000, and is the previous buffer plus that sample less
\* some elements of its head.
C13_HistoryWindow ==
  AfterChartFrame =>
    /\ \A i, j \in DOMAIN history :
         i <= j => history[i].timestamp <= history[j].timestamp
    /\ history # <<>>
    /\ history[Len(history)] =
         [timestamp |-> chartClock, value |-> lastChartFrame.input]
    /\ \A i \in DOMAIN history :
         history[i].timestamp >= chartClock - historySeconds * 1000
    /\ IsTailOf(history, Append(lastChartFrame.before, history[Len(history)]))

\* a frame dropped the oldest sample and kept a newer one
C13_Witness ==
  /\ AfterChartFrame
  /\ Len(history) >= 2
  /\ Len(history) <= Len(lastChartFrame.before)
  /\ lastChartFrame.before[1].timestamp < chartClock - historySeconds * 1000

\* C18: with one frame every 100 ms, once samples have been fed for longer
\* than historySeconds the buffer length after each frame no longer grows and
\* is historySeconds*10, give or take 1.
C18_SteadyLength ==
  ( /\ AfterChartFrame
    /\ chartClock - lastChartFrame.first > historySeconds * 1000 ) =>
    /\ Len(history) <= Len(lastChartFrame.before)
    /\ Len(history) >= historySeconds * 10 - 1
    /\ Len(history) <= historySeconds * 10 + 1

\* a frame later than historySeconds after the first one dropped a sample
C18_Witness ==
  /\ AfterChartFrame
  /\ chartClock - lastChartFrame.first > historySeconds * 1000
  /\ Len(history) = Len(lastChartFrame.before)
  /\ Len(history) >= historySeconds * 10 - 1

----------------------------------------------------------------------------
\* Unavailable drawing surface

\* C14: a frame without a drawing surface changes nothing and leaves the frame
\* loop scheduled, in the renderer and in the chart.
C14_LoopStaysScheduled ==
  /\ statusPhase = "mounted" => statusFrame
  /\ chartPhase = "mounted" => chartFrame

----------------------------------------------------------------------------
\* Clamp

InRangeNum(a) == ~a.nan /\ 0 <= a.v /\ a.v <= 1000

\* C17: for every amplitude x, validateProps returns a value in [0,1], and
\* returns x itself when 0 <= x <= 1.
C17_ClampRange ==
  clampCall.done =>
    /\ InRangeNum(clampCall.result)
    /\ InRangeNum(clampCall.x) => clampCall.result = clampCall.x

----------------------------------------------------------------------------
\* RMS analysis

\* C19: for every buffer the worker posts min(1, sqrt(mean(sample^2)) / 0.5)
\* (here to within the rounding of whole thousandths), a value in [0,1]; a
\* buffer of zeros gives 0 and a buffer whose RMS is at least 0.5 gives 1.
C19_RmsResult ==
  analysis.done =>
    LET n   == Len(analysis.buffer)
        sum == SumOfSquares(analysis.buffer)
        v   == analysis.result
    IN  /\ 0 <= v /\ v <= 1000
        /\ (\A i \in 1 .. n : analysis.buffer[i] = 0) => v = 0
        /\ sum >= n * 500 * 500 => v = 1000
        /\ sum < n * 500 * 500 =>
             /\ v * v * n <= 4 * sum
             /\ 4 * sum < (v + 4) * (v + 4) * n

\* a buffer with a quiet and a loud sample whose RMS reaches the reference
\* level
C19_Witness ==
  /\ analysis.done
  /\ \E i \in DOMAIN analysis.buffer :
       analysis.buffer[i] < 500 /\ analysis.buffer[i] > -500
  /\ SumOfSquares(analysis.buffer) > Len(analysis.buffer) * 500 * 500
  /\ analysis.result = 1000

----------------------------------------------------------------------------
\* Amplitude after stop

\* C20: once stopRecording has set amplitude to 0, amplitude stays 0 while
\* isRecording is false, until startRecording is called again, whichever
\* responses of the worker are still on their way.
C20_ZeroWhileStopped ==
  (stopped /\ ~isRecording) => amplitude = 0

----------------------------------------------------------------------------
\* Synthetic source

\* C15: the call that enters a pause at timestamp t returns 0, and so does
\* every later call with a timestamp below t + pauseDuration.
C15_ZeroDuringPause ==
  (simLog.entered >= 0 /\ simClock < simLog.entered + pauseDuration) =>
    simResult = 0

\* a call after the one that entered the pause, still inside the pause
C15_Witness ==
  /\ simLog.entered >= 0
  /\ simClock > simLog.entered
  /\ simClock < simLog.entered + pauseDuration
  /\ simResult = 0

\* C16: getAmplitude returns a value between 0 and maxAmplitude, whatever the
\* timestamp and the random draws, paused or not.
C16_ResultInRange ==
  0 <= simResult /\ simResult <= maxAmplitude

\* a call outside a pause whose amplitude came out below 0 before the clamp
C16_Witness ==
  /\ ~isPaused
  /\ simLog.raw < 0
  /\ simResult = 0
  /\ simClock > 0

----------------------------------------------------------------------------
\* Listening pulses

\* C22: on a Listening frame an existing pulse's progress advances by the time
\* since the previous frame divided by 2000 ms.
C22_ProgressFollowsTime ==
  ( /\ lastFrame.state = "listening"
    /\ lastFrame.rings = 1
    /\ lastFrame.before <= RING_SPAWN_THRESHOLD ) =>
    innerRings[1].progress =
      lastFrame.before + (lastFrame.dt * 1000) \div LISTENING_RING_DURATION

\* C23: every pulse kept after a Listening frame, which is every pulse the
\* frame draws, has progress in [0,1), opacity in (0,1] and opacity equal to
\* 1 - 1.2 * progress; a pulse whose opacity reached 0 is not kept.
C23_RingLifecycle ==
  \A i \in DOMAIN innerRings :
    /\ 0 <= innerRings[i].progress /\ innerRings[i].progress < 1000
    /\ 0 < innerRings[i].opacity /\ innerRings[i].opacity <= 5000
    /\ innerRings[i].opacity = 5000 - 6 * innerRings[i].progress

\* a Listening frame removed the pulse whose opacity had reached 0 and kept
\* the younger one
C23_Witness ==
  /\ lastFrame.state = "listening"
  /\ lastFrame.rings = 2
  /\ Len(innerRings) = 1
  /\ innerRings[1].progress > RING_SPAWN_THRESHOLD

----------------------------------------------------------------------------
\* Decay and frame rate

\* C24: while consecutive Speaking frames read the same input, the effective
\* amplitude is max(input, start - 2.0 * T), where start is its value after
\* the first of those frames and T the time since that frame, however many
\* frames T was split into.
C24_DecayByElapsedTime ==
  decayRun.active =>
    effectiveAmplitude =
      Max(decayRun.input,
          decayRun.start - AMPLITUDE_DECAY_RATE * (lastTimestamp - decayRun.t0))

\* 150 ms into a decay (two or three frames), the value still above the input
C24_Witness ==
  /\ decayRun.active
  /\ lastTimestamp - decayRun.t0 = 150
  /\ effectiveAmplitude > decayRun.input
  /\ effectiveAmplitude = decayRun.start - 300

----------------------------------------------------------------------------
\* Host application and audio contexts

\* C21: in the host application, while the selected state is not 'speaking'
\* and no startRecording is waiting for the microphone, the recorder is not
\* recording and no capture stream is live; and never is more than one capture
\* stream live.
C21_StopCancelsPendingStart ==
  /\ (state # "speaking" /\ pendingStarts = <<>>) =>
       (~isRecording /\ liveStreams = {})
  /\ Cardinality(liveStreams) <= 1

\* C25: at most one audio context created by the recorder is open at any time,
\* and after teardown, with no start still waiting, none is.
C25_ContextsDoNotAccumulate ==
  /\ Cardinality(openContexts) <= 1
  /\ (recorderPhase = "unmounted" /\ pendingStarts = <<>>) => openContexts = {}

============================================================================
